---- MODULE Spec2Model ----
(***************************************************************************)
(* Model of streamlit_app.py: the risk classifier calculate_risk, the      *)
(* SQLite-backed measurement store (init_db, save_measurement,             *)
(* load_measurements) and the script run with its measurement form.        *)
(*                                                                         *)
(* jc_index values are counted in tenths (3.5 is 35, 4.0 is 40).           *)
(* Text (patient identifiers, the query) is a sequence of pieces; the      *)
(* piece "'" is the quote character.  A stored scan_date is the ISO text   *)
(* the sqlite3 date adapter writes, as a sequence of character codes.      *)
(***************************************************************************)
EXTENDS Integers, Sequences, FiniteSets, TLC

VARIABLES table_exists, jc_measurements, last, jc_in, risk_out

vars == <<table_exists, jc_measurements, last, jc_in, risk_out>>

(***************************************************************************)
(* Bounds of the model.                                                    *)
(***************************************************************************)
MaxRows == 2
MaxJcInput == 120

(***************************************************************************)
(* Text pieces.                                                            *)
(***************************************************************************)
Quote == "'"
OrKw == " OR "
EqSym == "="
SelectPrefix == "SELECT * FROM jc_measurements WHERE patient_id = "
OrderBy == " ORDER BY scan_date"

Plain1 == <<"P1">>
OBrien == <<"O", Quote, "B">>
Tautology == <<Quote, OrKw, Quote, "1", Quote, EqSym, Quote, "1">>

PatientIds == {Plain1, OBrien, Tautology}

ScanDates == {<<2024, 2, 5>>, <<2024, 10, 1>>}
JcValues == {1, 40}
FormJcValues == {0, 1, 40}
LesionValues == {0}
NoteValues == {""}
Absent == "ABSENT"
CallerRisk == {Absent, "HIGH"}

(***************************************************************************)
(* Risk classifier.                                                        *)
(***************************************************************************)
calculate_risk_strict(jc_index) ==
    IF jc_index > 40 THEN "HIGH"
    ELSE IF jc_index > 35 THEN "MEDIUM"
    ELSE "LOW"

calculate_risk(jc_index) ==
    IF jc_index >= 40 THEN "HIGH"
    ELSE IF jc_index >= 35 THEN "MEDIUM"
    ELSE "LOW"

(***************************************************************************)
(* datetime.date to the text sqlite3 stores: YYYY-MM-DD, zero padded.      *)
(* Characters are their codes: "-" is 45, the digit k is 48 + k.           *)
(***************************************************************************)
RECURSIVE Digits(_)
Digits(n) == IF n < 10 THEN <<48 + n>> ELSE Append(Digits(n \div 10), 48 + (n % 10))

RECURSIVE ZeroPad(_, _)
ZeroPad(s, width) == IF Len(s) >= width THEN s ELSE ZeroPad(<<48>> \o s, width)

isoformat(d) ==
    ZeroPad(Digits(d[1]), 4) \o <<45>> \o ZeroPad(Digits(d[2]), 2) \o <<45>>
        \o ZeroPad(Digits(d[3]), 2)

\* Byte-wise comparison of two texts (SQLite's BINARY collation).
RECURSIVE TextLess(_, _)
TextLess(a, b) ==
    IF b = <<>> THEN FALSE
    ELSE IF a = <<>> THEN TRUE
    ELSE IF a[1] # b[1] THEN a[1] < b[1]
    ELSE TextLess(Tail(a), Tail(b))

(***************************************************************************)
(* The query text load_measurements builds, and how SQLite reads it.       *)
(* The patient identifier is pasted between two quote characters.          *)
(***************************************************************************)
Query(patient_id) == <<SelectPrefix, Quote>> \o patient_id \o <<Quote, OrderBy>>

\* A string literal runs to the next quote that is not doubled; a doubled
\* quote stands for one quote character inside the literal.
RECURSIVE ReadString(_, _, _)
ReadString(text, i, acc) ==
    IF i > Len(text) THEN [ok |-> FALSE, val |-> acc, next |-> i]
    ELSE IF text[i] = Quote
         THEN IF i < Len(text) /\ text[i + 1] = Quote
              THEN ReadString(text, i + 2, Append(acc, Quote))
              ELSE [ok |-> TRUE, val |-> acc, next |-> i + 1]
         ELSE ReadString(text, i + 1, Append(acc, text[i]))

RECURSIVE Lex(_, _, _)
Lex(text, i, toks) ==
    IF i > Len(text) THEN [ok |-> TRUE, toks |-> toks]
    ELSE IF text[i] = Quote
         THEN LET s == ReadString(text, i + 1, <<>>)
              IN  IF s.ok
                  THEN Lex(text, s.next, Append(toks, [t |-> "str", v |-> s.val]))
                  ELSE [ok |-> FALSE, toks |-> toks]
         ELSE LET kind == IF text[i] = OrKw THEN "or"
                          ELSE IF text[i] = EqSym THEN "eq"
                          ELSE IF text[i] = OrderBy THEN "orderby"
                          ELSE "word"
              IN  Lex(text, i + 1, Append(toks, [t |-> kind, v |-> <<text[i]>>]))

\* After the literal compared with patient_id: any number of
\* OR 'a' = 'b' terms, then the ORDER BY clause.  Anything else is a
\* syntax error.
RECURSIVE ParseTerms(_, _)
ParseTerms(toks, pairs) ==
    IF Len(toks) = 1 /\ toks[1].t = "orderby"
    THEN [ok |-> TRUE, pairs |-> pairs]
    ELSE IF Len(toks) >= 4 /\ toks[1].t = "or" /\ toks[2].t = "str"
            /\ toks[3].t = "eq" /\ toks[4].t = "str"
         THEN ParseTerms(SubSeq(toks, 5, Len(toks)),
                         Append(pairs, <<toks[2].v, toks[4].v>>))
         ELSE [ok |-> FALSE, pairs |-> pairs]

Parse(query) ==
    LET lx == Lex(query, 2, <<>>)
    IN  IF query[1] # SelectPrefix \/ ~lx.ok \/ lx.toks = <<>> \/ lx.toks[1].t # "str"
        THEN [ok |-> FALSE, lit |-> <<>>, pairs |-> <<>>]
        ELSE LET ts == ParseTerms(Tail(lx.toks), <<>>)
             IN  [ok |-> ts.ok, lit |-> lx.toks[1].v, pairs |-> ts.pairs]

\* The WHERE condition of a parsed query on one row.
Matches(r, q) ==
    \/ r.patient_id = q.lit
    \/ \E k \in 1..Len(q.pairs) : q.pairs[k][1] = q.pairs[k][2]

\* ORDER BY scan_date: every arrangement of the matching rows in which no
\* row comes before a row with a smaller scan_date.  Rows with equal
\* scan_date may come in either order.
Ordered(table, q) ==
    LET sel == {i \in 1..Len(table) : Matches(table[i], q)}
        n == Cardinality(sel)
        perms == {f \in [1..n -> sel] :
                    /\ \A j, k \in 1..n : j # k => f[j] # f[k]
                    /\ \A j, k \in 1..n :
                         j < k => ~TextLess(table[f[k]].scan_date, table[f[j]].scan_date)}
    IN  {[k \in 1..n |-> table[f[k]]] : f \in perms}

(***************************************************************************)
(* The store operations as functions of the database state.                *)
(***************************************************************************)
CreateTableDropFirst(exists, table) == <<>>

CreateTableIfNotExists(exists, table) == IF exists THEN table ELSE <<>>

RowKeepCallerRisk(data) ==
    [patient_id |-> data.patient_id,
     scan_date |-> isoformat(data.scan_date),
     jc_index |-> data.jc_index,
     total_lesions |-> data.total_lesions,
     new_lesions |-> data.new_lesions,
     notes |-> data.notes,
     risk_level |-> IF data.risk_level # Absent THEN data.risk_level
                    ELSE calculate_risk(data.jc_index)]

Row(data) ==
    [patient_id |-> data.patient_id,
     scan_date |-> isoformat(data.scan_date),
     jc_index |-> data.jc_index,
     total_lesions |-> data.total_lesions,
     new_lesions |-> data.new_lesions,
     notes |-> data.notes,
     risk_level |-> calculate_risk(data.jc_index)]

InsertOrReplace(table, data) ==
    LET same(r) == r.patient_id = data.patient_id
                   /\ r.scan_date = isoformat(data.scan_date)
    IN  IF \E i \in 1..Len(table) : same(table[i])
        THEN [i \in 1..Len(table) |-> IF same(table[i]) THEN Row(data) ELSE table[i]]
        ELSE Append(table, Row(data))

InsertInto(table, data) == Append(table, Row(data))

\* Outcome of save_measurement: the table afterwards, whether the call
\* returned or raised, and whether conn.close() was reached.
save_measurement(exists, table, data) ==
    IF exists
    THEN [status |-> "ok", conn |-> "closed", table |-> InsertInto(table, data)]
    ELSE [status |-> "error", conn |-> "open", table |-> table]

\* Outcomes of load_measurements: the frame returned, or an error raised
\* by read_sql_query, after which conn.close() is not reached.
load_measurements(exists, table, patient_id) ==
    LET q == Parse(Query(patient_id))
    IN  IF ~exists \/ ~q.ok
        THEN {[status |-> "error", conn |-> "open", result |-> <<>>]}
        ELSE {[status |-> "ok", conn |-> "closed", result |-> res] :
                 res \in Ordered(table, q)}

\* The check of the form's submit handler.
FormValidZeroAllowed(jc_index, total_lesions) == jc_index >= 0 /\ total_lesions >= 0

FormValid(jc_index, total_lesions) == jc_index > 0 /\ total_lesions >= 0

(***************************************************************************)
(* State.  table_exists and jc_measurements are the database file;  last   *)
(* records the most recent operation and how it ended;  jc_in and risk_out *)
(* are the argument and result of a direct call of calculate_risk.         *)
(***************************************************************************)
NoData ==
    [patient_id |-> <<>>, scan_date |-> <<0, 0, 0>>, jc_index |-> 0,
     total_lesions |-> 0, new_lesions |-> 0, notes |-> "", risk_level |-> Absent]

Idle ==
    [op |-> "none", patient_id |-> <<>>, status |-> "ok", conn |-> "closed",
     result |-> <<>>, saved |-> FALSE, data |-> NoData, ui |-> "none",
     submitted |-> FALSE]

\* What a caller of save_measurement may pass, a risk_level key included.
Measurements ==
    [patient_id : PatientIds, scan_date : ScanDates, jc_index : JcValues,
     total_lesions : LesionValues, new_lesions : LesionValues,
     notes : NoteValues, risk_level : CallerRisk]

\* What the form's widgets deliver; new_data has no risk_level key.
FormInputs ==
    [patient_id : PatientIds, scan_date : ScanDates, jc_index : FormJcValues,
     total_lesions : LesionValues, new_lesions : LesionValues,
     notes : NoteValues, risk_level : {Absent}]

RiskInputs == (0 - MaxJcInput)..MaxJcInput

Init ==
    /\ table_exists = FALSE
    /\ jc_measurements = <<>>
    /\ last = Idle
    /\ jc_in = 0
    /\ risk_out = "NONE"

\* The module has run its init_db() call: functions can be called.
Started == last.op # "none"

InitDb ==
    /\ table_exists' = TRUE
    /\ jc_measurements' = CreateTableIfNotExists(table_exists, jc_measurements)
    /\ last' = [Idle EXCEPT !.op = "init_db"]
    /\ UNCHANGED <<jc_in, risk_out>>

SaveMeasurement ==
    /\ Started
    /\ Len(jc_measurements) < MaxRows
    /\ \E data \in Measurements :
         LET o == save_measurement(table_exists, jc_measurements, data)
         IN  /\ jc_measurements' = o.table
             /\ last' = [Idle EXCEPT !.op = "save_measurement",
                                     !.patient_id = data.patient_id,
                                     !.status = o.status,
                                     !.conn = o.conn,
                                     !.saved = (o.status = "ok"),
                                     !.data = data]
    /\ UNCHANGED <<table_exists, jc_in, risk_out>>

LoadMeasurements ==
    /\ Started
    /\ \E patient_id \in PatientIds :
         \E o \in load_measurements(table_exists, jc_measurements, patient_id) :
           LET after_save == /\ last.op = "save_measurement"
                             /\ last.saved
                             /\ last.patient_id = patient_id
           IN  last' = [Idle EXCEPT !.op = "load_measurements",
                                    !.patient_id = patient_id,
                                    !.status = o.status,
                                    !.conn = o.conn,
                                    !.result = o.result,
                                    !.saved = after_save,
                                    !.data = IF after_save THEN last.data ELSE NoData]
    /\ UNCHANGED <<table_exists, jc_measurements, jc_in, risk_out>>

\* One run of the script: init_db(), load_measurements(patient_id), the
\* page, and the form's submit handler.  An error raised by the load ends
\* the run before the form is reached.  After a save the script reruns
\* and loads the patient again.
ScriptRun ==
    /\ table_exists' = TRUE
    /\ \E patient_id \in PatientIds :
         LET table == CreateTableIfNotExists(table_exists, jc_measurements)
             run == [Idle EXCEPT !.op = "script", !.patient_id = patient_id]
         IN  \E df \in load_measurements(TRUE, table, patient_id) :
               IF df.status = "error"
               THEN /\ jc_measurements' = table
                    /\ last' = [run EXCEPT !.status = "error", !.conn = "open",
                                           !.ui = "exception"]
               ELSE \/ /\ jc_measurements' = table
                       /\ last' = [run EXCEPT !.result = df.result]
                    \/ \E f \in {g \in FormInputs : g.patient_id = patient_id} :
                         IF FormValid(f.jc_index, f.total_lesions)
                         THEN /\ Len(table) < MaxRows
                              /\ LET o == save_measurement(TRUE, table, f)
                                 IN  /\ jc_measurements' = o.table
                                     /\ \E df2 \in load_measurements(TRUE, o.table, patient_id) :
                                          last' = [run EXCEPT !.status = df2.status,
                                                              !.conn = df2.conn,
                                                              !.result = df2.result,
                                                              !.saved = TRUE,
                                                              !.data = f,
                                                              !.ui = "success",
                                                              !.submitted = TRUE]
                         ELSE /\ jc_measurements' = table
                              /\ last' = [run EXCEPT !.result = df.result,
                                                     !.data = f,
                                                     !.ui = "error",
                                                     !.submitted = TRUE]
    /\ UNCHANGED <<jc_in, risk_out>>

Next == InitDb \/ SaveMeasurement \/ LoadMeasurements \/ ScriptRun

Spec == Init /\ [][Next]_vars

\* Direct calls of the classifier on any input.
Classify ==
    /\ \E x \in RiskInputs :
         /\ jc_in' = x
         /\ risk_out' = calculate_risk(x)
    /\ UNCHANGED <<table_exists, jc_measurements, last>>

SpecRisk == Init /\ [][Classify]_vars

(***************************************************************************)
(* Vocabulary of the properties.                                           *)
(***************************************************************************)
\* The rows saved under one patient identifier, in insertion order.
Stored(table, p) == SelectSeq(table, LAMBDA r : r.patient_id = p)

IsPrefix(a, b) == Len(a) <= Len(b) /\ SubSeq(b, 1, Len(a)) = a

Occurrences(r, s) == Cardinality({i \in 1..Len(s) : s[i] = r})

\* The same rows, each as often, in any order.
SameRows(a, b) ==
    /\ Len(a) = Len(b)
    /\ \A i \in 1..Len(a) : Occurrences(a[i], a) = Occurrences(a[i], b)

DistinctDates(s) == \A j, k \in 1..Len(s) : j # k => s[j].scan_date # s[k].scan_date

Ascending(s) == \A j, k \in 1..Len(s) : j < k => TextLess(s[j].scan_date, s[k].scan_date)

IsLoad == last.op = "load_measurements"

(***************************************************************************)
(* Properties.                                                             *)
(***************************************************************************)

StoredRiskIsClassified ==
    /\ \A i \in 1..Len(jc_measurements) :
         jc_measurements[i].risk_level = calculate_risk(jc_measurements[i].jc_index)
    /\ (last.op = "save_measurement" /\ last.saved) =>
         jc_measurements[Len(jc_measurements)].risk_level
             = calculate_risk(last.data.jc_index)

CallerRiskOverwritten ==
    /\ last.op = "save_measurement"
    /\ last.saved
    /\ last.data.risk_level = "HIGH"
    /\ last.data.jc_index = 1
    /\ jc_measurements[Len(jc_measurements)].risk_level = "LOW"

\* C3: when the rows saved under a patient have pairwise distinct
\* scan_dates, load_measurements for that patient returns those rows
\* sorted ascending by scan_date, whatever the order of the saves.
LoadSortedByScanDate ==
    LET mine == Stored(jc_measurements, last.patient_id)
    IN  (IsLoad /\ mine # <<>> /\ DistinctDates(mine)) =>
            /\ last.status = "ok"
            /\ SameRows(last.result, mine)
            /\ Ascending(last.result)

\* C4: save_measurement(m) followed by load_measurements(m.patient_id)
\* returns a sequence whose last element is m with risk_level
\* calculate_risk(m.jc_index), whatever the patient's earlier rows are.
SavedRowIsLastLoaded ==
    (IsLoad /\ last.saved) =>
        /\ last.status = "ok"
        /\ last.result # <<>>
        /\ last.result[Len(last.result)] = Row(last.data)

\* C5: load_measurements(p) returns exactly the stored rows whose
\* patient_id is p, for every identifier p, quote characters included.
LoadReturnsExactlyPatientRows ==
    IsLoad =>
        /\ last.status = "ok"
        /\ SameRows(last.result, Stored(jc_measurements, last.patient_id))

\* C6: for an identifier under which nothing was saved, load_measurements
\* returns an empty sequence and does not end in an error, also when
\* other patients have rows.
UnknownPatientLoadsEmpty ==
    (IsLoad /\ Stored(jc_measurements, last.patient_id) = <<>>) =>
        /\ last.status = "ok"
        /\ last.result = <<>>

\* C7: a submission with jc_index <= 0 or total_lesions < 0 shows an error
\* and writes nothing; a submission with jc_index > 0 and
\* total_lesions >= 0 is saved as one new row classified by calculate_risk.
SubmitValidated ==
    [][(last'.op = "script" /\ last'.submitted) =>
         LET f == last'.data
             before == CreateTableIfNotExists(table_exists, jc_measurements)
         IN  IF f.jc_index <= 0 \/ f.total_lesions < 0
             THEN /\ last'.ui = "error"
                  /\ ~last'.saved
                  /\ jc_measurements' = before
             ELSE /\ last'.ui = "success"
                  /\ last'.saved
                  /\ Len(jc_measurements') = Len(before) + 1
                  /\ IsPrefix(before, jc_measurements')
                  /\ LET r == jc_measurements'[Len(jc_measurements')]
                     IN  /\ r.patient_id = f.patient_id
                         /\ r.scan_date = isoformat(f.scan_date)
                         /\ r.jc_index = f.jc_index
                         /\ r.total_lesions = f.total_lesions
                         /\ r.risk_level = calculate_risk(f.jc_index)
                         /\ (f.jc_index = 1 => r.risk_level = "LOW")]_vars

ZeroRejected ==
    /\ last.op = "script"
    /\ last.submitted
    /\ last.data.jc_index = 0
    /\ last.ui = "error"
    /\ jc_measurements # <<>>

\* C8: init_db creates the table when it is absent and changes nothing
\* when it exists: every row stays, and load_measurements gives the same
\* outcomes for every patient before and after.
InitDbKeepsRows ==
    [][last'.op = "init_db" =>
         /\ table_exists'
         /\ IF table_exists
            THEN /\ jc_measurements' = jc_measurements
                 /\ \A p \in PatientIds :
                      load_measurements(table_exists', jc_measurements', p)
                          = load_measurements(table_exists, jc_measurements, p)
            ELSE jc_measurements' = <<>>]_vars

ReinitWithRows ==
    /\ last.op = "init_db"
    /\ Len(jc_measurements) = MaxRows

\* C9: init_db, save_measurement and load_measurements each close the
\* connection they opened on every way out, an error included.
ConnectionAlwaysReleased ==
    last.op \in {"init_db", "save_measurement", "load_measurements"} =>
        last.conn = "closed"

\* C10: the store is append-only: no stored row is ever changed or
\* removed, load_measurements changes nothing, and a successful
\* save_measurement adds exactly one row for the named patient and leaves
\* every other patient's rows as they were.
AppendOnly ==
    [][/\ IsPrefix(jc_measurements, jc_measurements')
       /\ last'.op = "load_measurements" =>
            /\ jc_measurements' = jc_measurements
            /\ table_exists' = table_exists
       /\ (last'.op = "save_measurement" /\ last'.status = "ok") =>
            /\ Len(jc_measurements') = Len(jc_measurements) + 1
            /\ jc_measurements'[Len(jc_measurements')].patient_id = last'.data.patient_id
            /\ \A p \in PatientIds \ {last'.data.patient_id} :
                 Stored(jc_measurements', p) = Stored(jc_measurements, p)]_vars

SecondSaveSameKey ==
    /\ last.op = "save_measurement"
    /\ last.saved
    /\ Len(jc_measurements) = 2
    /\ jc_measurements[1].patient_id = jc_measurements[2].patient_id
    /\ jc_measurements[1].scan_date = jc_measurements[2].scan_date
    /\ jc_measurements[1].jc_index # jc_measurements[2].jc_index

====
